---------------------------- MODULE Spec2Model ----------------------------
(***************************************************************************)
(* A model of ArgParser (src/src/ArgParser/ArgParser.cpp and               *)
(* src/include/ArgParser/ArgParser.hpp).                                   *)
(*                                                                         *)
(* A C string is a sequence of one-character strings; the terminating      *)
(* '\0' is what CharAt yields one past the last character.  Character and  *)
(* argv indices are the C ones (0-based): argv[0] is the executable path.  *)
(*                                                                         *)
(* parse is modelled from its definition in ArgParser.cpp, which takes     *)
(* accept_remaining_arguments and fills m_remaining_arguments; the class   *)
(* declaration in ArgParser.hpp names neither.                             *)
(***************************************************************************)
EXTENDS Integers, Sequences, FiniteSets, TLC

VARIABLES
    m_available_options,    \* std::vector<OptionDef>
    m_executable_path,      \* std::filesystem::path
    m_options,              \* std::map<std::string_view, std::string_view>
    m_arguments,            \* std::vector<std::string_view>
    m_remaining_arguments,  \* std::vector<std::string_view>
    argv,                   \* the argument vector of the last parse call (<<>>: none yet)
    accept,                 \* accept_remaining_arguments of the last parse call
    thrown,                 \* the exception the last parse call raised, or NoThrow
    scan,                   \* history: what each iteration of the parse loop did
    stale,                  \* history: the tables held results when the last parse began
    ret                     \* the last ValueProxy call and what it returned or raised

vars == <<m_available_options, m_executable_path, m_options, m_arguments,
          m_remaining_arguments, argv, accept, thrown, scan, stale, ret>>

----------------------------------------------------------------------------
\* Bounds of the model.

\* most tokens after the executable path in one argument vector
MaxArgs == 3

\* most tokens after the executable path when parse is called again
MaxReArgs == 2

\* most tokens after the executable path of a parser whose values are read
MaxReadArgs == 2

\* largest positional index a ValueProxy is asked for
MaxIndex == 0

----------------------------------------------------------------------------
\* C strings.

NUL == ""

NULL == -1

\* s[k] of a NUL-terminated string
CharAt(s, k) == IF k < Len(s) THEN s[k + 1] ELSE NUL

\* std::string_view(s + a, s + b)
View(s, a, b) == SubSeq(s, a + 1, b)

\* the C string that starts at s + a
CStr(s, a) == SubSeq(s, a + 1, Len(s))

\* strchr(s + from, c): the index of the first c at or after from, or NULL
StrChr(s, from, c) ==
    LET hits == {k \in from .. (Len(s) - 1) : s[k + 1] = c}
    IN  IF hits = {} THEN NULL
        ELSE CHOOSE k \in hits : \A h \in hits : k <= h

\* argv[i]
Arg(av, i) == av[i + 1]

\* argc
Argc(av) == Len(av)

----------------------------------------------------------------------------
\* Option definitions and the constructor.

OptionDef(full_name, short_name, expect_value) ==
    [m_full_name |-> full_name, m_short_name |-> short_name,
     m_expect_value |-> expect_value]

\* the constructor without a short name: the first character of the full name
OptionDefShort(full_name, expect_value) ==
    OptionDef(full_name, CharAt(full_name, 0), expect_value)

\* the constructor's duplicate check: TRUE when it throws
HasShortDuplicate(options) ==
    \E current \in 1 .. Len(options) :
        \E duplicate \in (current + 1) .. Len(options) :
            options[current].m_short_name = options[duplicate].m_short_name

NameAll == <<"a", "l", "l">>
NameOut == <<"o", "u", "t">>
NameOld == <<"o", "l", "d">>

\* the option lists a caller constructs a parser from
OptionLists ==
    { << OptionDefShort(NameAll, FALSE), OptionDefShort(NameOut, TRUE) >>,
      << OptionDef(NameAll, "a", FALSE), OptionDefShort(NameOut, TRUE),
         OptionDefShort(NameOld, FALSE) >> }

\* the first element of a set of indices, or 0 for end()
First(hits) ==
    IF hits = {} THEN 0
    ELSE CHOOSE k \in hits : \A h \in hits : k <= h

\* lines 98-105: std::find_if by m_full_name
FindFullName(options, full_name) ==
    First({k \in 1 .. Len(options) : options[k].m_full_name = full_name})

\* lines 132-139: std::find_if by m_short_name
FindShortName(options, short_name) ==
    First({k \in 1 .. Len(options) : options[k].m_short_name = short_name})

----------------------------------------------------------------------------
\* parse

NoThrow == [what |-> "none"]

\* ArgParserException raised by the iteration at argv[at]
Throw(what, name, at) == [what |-> what, name |-> name, at |-> at]

\* one entry of the history: the iteration at argv[idx] took branch kind
Event(idx, kind, key, value, vidx) ==
    [idx |-> idx, kind |-> kind, key |-> key, value |-> value, vidx |-> vidx]

\* m_options[key] = value
MapPut(map, key, value) ==
    [k \in (DOMAIN map) \cup {key} |-> IF k = key THEN value ELSE map[k]]

EmptyMap == [k \in {} |-> <<>>]

\* NextIsValue without the test of the next token's first character
NextIsValueAnyToken(av, i) == i + 1 < Argc(av)

\* the next token may be taken as a value: i + 1 < argc && *argv[i+1] != '-'
NextIsValue(av, i) == i + 1 < Argc(av) /\ CharAt(Arg(av, i + 1), 0) # "-"

\* AttachedValue starting at the "=" itself
AttachedValueFromEquals(tok, end) == CStr(tok, end)

\* --option=value: value = end + 1
AttachedValue(tok, end) == CStr(tok, end + 1)

\* RemainingArguments copying from argv + i, the "--" included
RemainingArgumentsFromSeparator(st, av) ==
    [st EXCEPT
        !.m_remaining_arguments = SubSeq(av, st.i + 1, Argc(av)) \o @,
        !.scan = Append(@, Event(st.i, "separator", <<>>, <<>>, 0)),
        !.i = Argc(av)]

\* lines 82-88: everything after "--" goes to m_remaining_arguments; break
RemainingArguments(st, av) ==
    [st EXCEPT
        !.m_remaining_arguments = SubSeq(av, st.i + 2, Argc(av)) \o @,
        !.scan = Append(@, Event(st.i, "separator", <<>>, <<>>, 0)),
        !.i = Argc(av)]

\* TakeNext reading argv[i + 1] without advancing i past it
TakeNextNoAdvance(st, av, option) ==
    [st EXCEPT
        !.m_options = MapPut(@, option.m_full_name, Arg(av, st.i + 1)),
        !.scan = Append(@, Event(st.i, "option", option.m_full_name,
                                 Arg(av, st.i + 1), st.i + 1)),
        !.i = st.i + 1]

\* lines 119 and 148: value = argv[++i]
TakeNext(st, av, option) ==
    [st EXCEPT
        !.m_options = MapPut(@, option.m_full_name, Arg(av, st.i + 1)),
        !.scan = Append(@, Event(st.i, "option", option.m_full_name,
                                 Arg(av, st.i + 1), st.i + 1)),
        !.i = st.i + 2]

\* lines 115 and 125: the value attached to the token, or "" for a flag
TakeOwn(st, option, value) ==
    [st EXCEPT
        !.m_options = MapPut(@, option.m_full_name, value),
        !.scan = Append(@, Event(st.i, "option", option.m_full_name, value, 0)),
        !.i = st.i + 1]

\* lines 110-125 and 144-154: the value of an option, and the record of it
StoreOption(st, av, option, name, end) ==
    IF ~option.m_expect_value
    THEN TakeOwn(st, option, <<>>)
    ELSE IF end # NULL
    THEN TakeOwn(st, option, AttachedValue(Arg(av, st.i), end))
    ELSE IF NextIsValue(av, st.i)
    THEN TakeNext(st, av, option)
    ELSE [st EXCEPT !.thrown = Throw("MissingOptionValue", name, st.i)]

\* lines 91-125: --option, --option=value, --option value
FullOption(st, av, options) ==
    LET tok       == Arg(av, st.i)
        begin     == 2
        end       == StrChr(tok, begin, "=")
        full_name == IF end # NULL THEN View(tok, begin, end) ELSE CStr(tok, begin)
        option    == FindFullName(options, full_name)
    IN  IF option = 0
        THEN [st EXCEPT !.thrown = Throw("UnrecognizedOption", full_name, st.i)]
        ELSE StoreOption(st, av, options[option], full_name, end)

\* lines 129-155: -o, -o value
ShortOption(st, av, options) ==
    LET short_name == CharAt(Arg(av, st.i), 1)
        option     == FindShortName(options, short_name)
    IN  IF option = 0
        THEN [st EXCEPT !.thrown = Throw("UnrecognizedOption", <<short_name>>, st.i)]
        ELSE StoreOption(st, av, options[option], <<short_name>>, NULL)

\* lines 159-160: m_arguments.push_back(argv[i])
PlainArgument(st, av) ==
    [st EXCEPT
        !.m_arguments = Append(@, Arg(av, st.i)),
        !.scan = Append(@, Event(st.i, "argument", <<>>, Arg(av, st.i), 0)),
        !.i = st.i + 1]

\* lines 73-160: the body of the loop for argv[st.i]
Iteration(st, av, acc, options) ==
    LET tok == Arg(av, st.i)
    IN  IF CharAt(tok, 0) = "-"
        THEN IF CharAt(tok, 1) = "-"
             THEN IF CharAt(tok, 2) = NUL /\ acc
                  THEN RemainingArguments(st, av)
                  ELSE FullOption(st, av, options)
             ELSE ShortOption(st, av, options)
        ELSE PlainArgument(st, av)

\* lines 71-161: for (size_t i = 1; i < argc; i++), left by break or by a throw
RECURSIVE Loop(_, _, _, _)
Loop(st, av, acc, options) ==
    IF st.i < Argc(av) /\ st.thrown = NoThrow
    THEN Loop(Iteration(st, av, acc, options), av, acc, options)
    ELSE st

\* ClearArguments without the clear() call
ClearArgumentsKeep(old) == old

\* lines 65-67: the three clear() calls
ClearOptions(old) == EmptyMap
ClearArguments(old) == <<>>
ClearRemaining(old) == <<>>

\* lines 65-69: the state the loop starts from
Cleared(options_, arguments_, remaining_) ==
    [i |-> 1,
     m_options |-> ClearOptions(options_),
     m_arguments |-> ClearArguments(arguments_),
     m_remaining_arguments |-> ClearRemaining(remaining_),
     thrown |-> NoThrow,
     scan |-> <<>>]

\* ArgParser::parse(argc, argv, accept_remaining_arguments)
parse(av, acc) ==
    LET done == Loop(Cleared(m_options, m_arguments, m_remaining_arguments),
                     av, acc, m_available_options)
    IN  /\ m_executable_path' = Arg(av, 0)
        /\ m_options' = done.m_options
        /\ m_arguments' = done.m_arguments
        /\ m_remaining_arguments' = done.m_remaining_arguments
        /\ thrown' = done.thrown
        /\ scan' = done.scan
        /\ argv' = av
        /\ accept' = acc
        /\ stale' = (m_options # EmptyMap \/ m_arguments # <<>>
                         \/ m_remaining_arguments # <<>>)
        /\ UNCHANGED m_available_options

----------------------------------------------------------------------------
\* ValueProxy

\* a proxy's m_index: an option name or a positional index
NameKey(name) == [kind |-> "name", name |-> name]
IndexKey(index) == [kind |-> "index", index |-> index]

Return(type, value) == [what |-> "value", type |-> type, value |-> value]
Raise(what, about) == [what |-> what, about |-> about]

\* ValueProxy::exists
exists(key) ==
    IF key.kind = "index"
    THEN key.index < Len(m_arguments)
    ELSE key.name \in DOMAIN m_options

\* ValueProxy::as<std::string_view>
as_string(key) ==
    IF key.kind = "index"
    THEN IF ~exists(key)
         THEN Raise("MissingRequiredValue", key)
         ELSE Return("string", m_arguments[key.index + 1])
    ELSE IF ~exists(key)
         THEN Raise("MissingRequiredValue", key)
         ELSE Return("string", m_options[key.name])

\* the integer type T the proxy is asked for: a signed type of IntBits bits
IntBits == 16
IntMin == -(2 ^ (IntBits - 1))
IntMax == 2 ^ (IntBits - 1) - 1

Digits == {"0", "1", "2", "3", "4", "5", "6", "7", "8", "9"}

DigitValue(c) ==
    CASE c = "0" -> 0 [] c = "1" -> 1 [] c = "2" -> 2 [] c = "3" -> 3
      [] c = "4" -> 4 [] c = "5" -> 5 [] c = "6" -> 6 [] c = "7" -> 7
      [] c = "8" -> 8 [] c = "9" -> 9

\* the value of the digits s[from .. to - 1], capped above every IntBits-bit value
RECURSIVE Magnitude(_, _, _, _)
Magnitude(s, from, to, sofar) ==
    IF from >= to THEN sofar
    ELSE LET next == sofar * 10 + DigitValue(CharAt(s, from))
         IN  Magnitude(s, from + 1, to, IF next > IntMax + 1 THEN IntMax + 2 ELSE next)

\* std::from_chars(first, last, value) in base 10 for a signed T, value being 0 before
FromChars(s) ==
    LET minus  == CharAt(s, 0) = "-"
        first  == IF minus THEN 1 ELSE 0
        stops  == {k \in first .. Len(s) : CharAt(s, k) \notin Digits}
        ptr    == CHOOSE k \in stops : \A h \in stops : k <= h
        mag    == Magnitude(s, first, ptr, 0)
        number == IF minus THEN 0 - mag ELSE mag
    IN  IF ptr = first
        THEN [ec |-> "invalid_argument", ptr |-> 0, value |-> 0]
        ELSE IF number < IntMin \/ number > IntMax
        THEN [ec |-> "result_out_of_range", ptr |-> ptr, value |-> 0]
        ELSE [ec |-> "", ptr |-> ptr, value |-> number]

\* what as<T>() does with the result of from_chars: TRUE when it throws
RejectsNumber(result) == result.ec = "invalid_argument"

\* ValueProxy::as<ArgParserIntegerValue>
as_integer(key) ==
    LET option == as_string(key)
    IN  IF option.what # "value" THEN option
        ELSE LET result == FromChars(option.value)
             IN  IF RejectsNumber(result)
                 THEN Raise("InvalidNumericValue", option.value)
                 ELSE Return("integer", result.value)

\* ValueProxy::as<bool>
as_bool(key) == Return("bool", exists(key))

\* ValueProxy::as<T>(): the overload the requested type selects
as(type, key) ==
    CASE type = "string"  -> as_string(key)
      [] type = "integer" -> as_integer(key)
      [] type = "bool"    -> as_bool(key)

\* as_default without the exists() test
as_default_unguarded(type, key, default_value) == as(type, key)

\* ValueProxy::as<T>(default_value)
as_default(type, key, default_value) ==
    IF exists(key) THEN as(type, key) ELSE Return(type, default_value)

----------------------------------------------------------------------------
\* The callers.

Types == {"string", "integer", "bool"}

\* the default a caller passes for each type
DefaultOf(type) ==
    CASE type = "string"  -> <<"d">>
      [] type = "integer" -> 0 - 1
      [] type = "bool"    -> FALSE

\* the keys a caller asks for
Keys == {NameKey(NameOut), NameKey(NameAll)} \cup {IndexKey(n) : n \in 0 .. MaxIndex}

Prog == <<"p">>
Tool == <<"q">>

\* the tokens a command line is made of
Pool ==
    { <<"f">>, <<"7">>, <<"7", "f">>,
      <<"-">>, <<"-", "-">>,
      <<"-", "a">>, <<"-", "o">>, <<"-", "a", "f">>,
      <<"-", "-", "o", "u", "t">>,
      <<"-", "-", "o", "u", "t", "=", "7">>,
      <<"-", "-", "o", "u", "t", "=", "-", "7">>,
      <<"-", "-", "o", "u", "t", "=", "-", "a">>,
      <<"-", "-", "o", "u", "t", "=", "9", "9", "9", "9", "9">> }

\* the tokens of a command line given to a parser that has parsed before
RePool ==
    { <<"f">>, <<"-", "-">>, <<"-", "a">>, <<"-", "o">>,
      <<"-", "-", "o", "u", "t", "=", "7">> }

\* the sequences over S of length at most n
SeqsUpTo(S, n) == UNION {[1 .. k -> S] : k \in 0 .. n}

Inputs == {<<Prog>> \o rest : rest \in SeqsUpTo(Pool, MaxArgs)}

ReadInputs == {<<Prog>> \o rest : rest \in SeqsUpTo(Pool, MaxReadArgs)}

ReInputs == {<<exe>> \o rest : exe \in {Prog, Tool}, rest \in SeqsUpTo(RePool, MaxReArgs)}

NoCall == [call |-> "none"]

Constructed == argv = <<>>

\* the state after ArgParser(options) returned without throwing
Init ==
    /\ m_available_options \in {options \in OptionLists : ~HasShortDuplicate(options)}
    /\ m_executable_path = <<>>
    /\ m_options = EmptyMap
    /\ m_arguments = <<>>
    /\ m_remaining_arguments = <<>>
    /\ argv = <<>>
    /\ accept = TRUE
    /\ thrown = NoThrow
    /\ scan = <<>>
    /\ stale = FALSE
    /\ ret = NoCall

\* parser.parse(argc, argv, accept) on a newly constructed parser
Parse ==
    /\ Constructed
    /\ \E av \in Inputs, acc \in BOOLEAN : parse(av, acc)
    /\ ret' = NoCall

\* parser.parse(argc, argv, accept) on any parser, parsed before or not
ParseAgain ==
    /\ \E av \in ReInputs, acc \in BOOLEAN : parse(av, acc)
    /\ ret' = NoCall

\* parser.parse(argc, argv, accept) on a newly constructed parser that is read next
ParseToRead ==
    /\ Constructed
    /\ \E av \in ReadInputs, acc \in BOOLEAN : parse(av, acc)
    /\ ret' = NoCall

\* parser[key].as<T>()
As ==
    /\ \E key \in Keys, type \in Types :
          ret' = [call |-> "as", key |-> key, type |-> type,
                  result |-> as(type, key)]
    /\ UNCHANGED <<m_available_options, m_executable_path, m_options, m_arguments,
                   m_remaining_arguments, argv, accept, thrown, scan, stale>>

\* parser[key].as<T>(default_value)
AsDefault ==
    /\ \E key \in Keys, type \in Types :
          ret' = [call |-> "as_default", key |-> key, type |-> type,
                  result |-> as_default(type, key, DefaultOf(type))]
    /\ UNCHANGED <<m_available_options, m_executable_path, m_options, m_arguments,
                   m_remaining_arguments, argv, accept, thrown, scan, stale>>

\* one parse of a new parser
Next == Parse

Spec == Init /\ [][Next]_vars

\* parse called again and again on one parser
NextTwice == ParseAgain

SpecTwice == Init /\ [][NextTwice]_vars

\* one parse of a new parser, and the values read from it
NextRead == ParseToRead \/ As \/ AsDefault

SpecRead == Init /\ [][NextRead]_vars

----------------------------------------------------------------------------
\* What the properties below speak of.

Parsed == argv # <<>>

Succeeded == Parsed /\ thrown = NoThrow

Failed == Parsed /\ thrown # NoThrow

\* the entries of the history of one kind
EventsOf(kind) == {k \in 1 .. Len(scan) : scan[k].kind = kind}

OptionIdx == {scan[k].idx : k \in EventsOf("option")}
ValueIdx == {scan[k].vidx : k \in {e \in EventsOf("option") : scan[e].vidx # 0}}
ArgumentIdx == {scan[k].idx : k \in EventsOf("argument")}
SeparatorIdx == {scan[k].idx : k \in EventsOf("separator")}
RemainingIdx == {j \in 1 .. (Argc(argv) - 1) : \E s \in SeparatorIdx : j > s}

\* the loop ran its body for argv[j]
Reached(j) ==
    \/ \E k \in 1 .. Len(scan) : scan[k].idx = j
    \/ (thrown # NoThrow /\ thrown.at = j)

ThrewAt(j, what) == thrown # NoThrow /\ thrown.at = j /\ thrown.what = what

StartsWithDash(tok) == Len(tok) >= 1 /\ tok[1] = "-"

\* the tokens of argv at the ascending indices of the set S, in order
RECURSIVE TokensAt(_, _)
TokensAt(S, from) ==
    IF from >= Argc(argv) THEN <<>>
    ELSE (IF from \in S THEN <<Arg(argv, from)>> ELSE <<>>) \o TokensAt(S, from + 1)

\* the parse of av by a parser that has not parsed before
Fresh(av, acc) == Loop(Cleared(EmptyMap, <<>>, <<>>), av, acc, m_available_options)

----------------------------------------------------------------------------
\* C1 (as stated): after a parse that succeeds, the option tokens, the tokens
\* taken as option values, the positional tokens, the remaining tokens and the
\* executable path add up to argc.
C1_AddsUpToArgc ==
    Succeeded =>
        Cardinality(EventsOf("option")) + Cardinality(ValueIdx)
            + Len(m_arguments) + Len(m_remaining_arguments) + 1 = Argc(argv)

\* C1 (amended): after a parse that succeeds, the option tokens, the tokens taken
\* as option values, the positional tokens, the remaining tokens, the executable
\* path and the "--" separator (when one was reached) add up to argc; no token is
\* in two of the groups, and every token after the executable path is in one.
C1_AddsUpWithSeparator ==
    Succeeded =>
        /\ Cardinality(EventsOf("option")) + Cardinality(ValueIdx)
              + Len(m_arguments) + Len(m_remaining_arguments) + 1
              + Cardinality(EventsOf("separator")) = Argc(argv)
        /\ Cardinality(SeparatorIdx) <= 1
        /\ Len(m_arguments) = Cardinality(ArgumentIdx)
        /\ Len(m_remaining_arguments) = Cardinality(RemainingIdx)
        /\ Cardinality(OptionIdx) = Cardinality(EventsOf("option"))
        /\ \A G, H \in {OptionIdx, ValueIdx, ArgumentIdx, SeparatorIdx, RemainingIdx} :
              G # H => G \cap H = {}
        /\ OptionIdx \cup ValueIdx \cup ArgumentIdx \cup SeparatorIdx \cup RemainingIdx
              = 1 .. (Argc(argv) - 1)

\* C1 witness: a successful parse that took an option with the next token as its
\* value and then reached the "--" separator.
C1_Witness ==
    /\ Succeeded
    /\ ValueIdx # {}
    /\ SeparatorIdx # {}

\* C2: after a parse that failed, the option table, the positional arguments and
\* the remaining arguments hold nothing.
C2_NothingKeptOnFailure ==
    Failed =>
        /\ m_options = EmptyMap
        /\ m_arguments = <<>>
        /\ m_remaining_arguments = <<>>

\* C3: whatever the parser parsed before, after parse the option table, the
\* positional arguments, the remaining arguments and the executable path are
\* those a parser that never parsed before gets from the same input.
C3_OnlyLastInput ==
    Parsed =>
        LET fresh == Fresh(argv, accept)
        IN  /\ m_options = fresh.m_options
            /\ m_arguments = fresh.m_arguments
            /\ m_remaining_arguments = fresh.m_remaining_arguments
            /\ thrown = fresh.thrown
            /\ m_executable_path = Arg(argv, 0)

\* C3 witness: a parse of an input without options or arguments, by a parser
\* whose tables held the results of an earlier parse, has left the tables empty.
C3_Witness ==
    /\ stale
    /\ Succeeded
    /\ argv = <<Tool>>
    /\ m_options = EmptyMap
    /\ m_arguments = <<>>
    /\ m_remaining_arguments = <<>>
    /\ m_executable_path = Tool

----------------------------------------------------------------------------
\* What the properties of ValueProxy speak of.

\* the key is in the tables
Present(key) ==
    IF key.kind = "index" THEN key.index + 1 \in 1 .. Len(m_arguments)
    ELSE \E name \in DOMAIN m_options : name = key.name

\* the string the tables hold for a key that is present
Stored(key) ==
    IF key.kind = "index" THEN m_arguments[key.index + 1] ELSE m_options[key.name]

\* s is a base-10 integer: an optional minus sign and then digits only, at least one
IsBase10(s) ==
    LET first == IF CharAt(s, 0) = "-" THEN 1 ELSE 0
    IN  /\ Len(s) > first
        /\ \A k \in first .. (Len(s) - 1) : CharAt(s, k) \in Digits

\* the integer a base-10 integer of at most five digits stands for
Base10Value(s) ==
    LET first == IF CharAt(s, 0) = "-" THEN 1 ELSE 0
        d(k)  == DigitValue(s[k])
        pow(k) == 10 ^ (Len(s) - k)
        terms == [k \in (first + 1) .. Len(s) |-> d(k) * pow(k)]
        sum[k \in first .. Len(s)] == IF k = first THEN 0 ELSE sum[k - 1] + terms[k]
    IN  IF first = 1 THEN 0 - sum[Len(s)] ELSE sum[Len(s)]

\* s is a base-10 integer of the requested type
IsValidInteger(s) ==
    IsBase10(s) /\ Base10Value(s) >= IntMin /\ Base10Value(s) <= IntMax

\* C4 (as stated): as(default_value) never raises an error.
C4_NeverFails ==
    ret.call = "as_default" => ret.result.what = "value"

\* C4 (amended): as(default_value) returns default_value without an error when
\* the key is absent, and does what as<T>() does when the key is present: it
\* raises nothing for a string or a boolean, and for an integer it raises
\* InvalidNumericValue when as<Integer>() does.
C4_DefaultWhenAbsent ==
    ret.call = "as_default" =>
        /\ ~Present(ret.key) => ret.result = Return(ret.type, DefaultOf(ret.type))
        /\ Present(ret.key) => ret.result = as(ret.type, ret.key)
        /\ Present(ret.key) /\ ret.type = "string" =>
              ret.result = Return("string", Stored(ret.key))
        /\ Present(ret.key) /\ ret.type = "bool" => ret.result = Return("bool", TRUE)
        /\ ret.result.what # "value" =>
              /\ ret.result = Raise("InvalidNumericValue", Stored(ret.key))
              /\ ret.type = "integer"
              /\ Present(ret.key)
              /\ ~IsBase10(Stored(ret.key))

\* C4 witness: as(default_value) for an integer raised InvalidNumericValue for a
\* key that is present.
C4_Witness ==
    /\ ret.call = "as_default"
    /\ ret.type = "integer"
    /\ Present(ret.key)
    /\ ret.result.what = "InvalidNumericValue"

\* C5: as<Integer>() for a key that is present returns the value of the stored
\* string when that is a valid base-10 integer of the requested type, and raises
\* InvalidNumericValue for every other stored string.
C5_IntegerOrInvalid ==
    (ret.call = "as" /\ ret.type = "integer" /\ Present(ret.key)) =>
        IF IsValidInteger(Stored(ret.key))
        THEN ret.result = Return("integer", Base10Value(Stored(ret.key)))
        ELSE ret.result.what = "InvalidNumericValue"

----------------------------------------------------------------------------
\* What the properties of the token forms speak of.

Dashes == <<"-", "-">>

\* the definitions that expect a value
Valued == {k \in 1 .. Len(m_available_options) : m_available_options[k].m_expect_value}

\* tok is --name=value for a name that expects a value
IsAttached(tok) ==
    /\ Len(tok) > 2
    /\ SubSeq(tok, 1, 2) = Dashes
    /\ \E e \in 3 .. Len(tok) :
          /\ tok[e] = "="
          /\ \A h \in 3 .. (e - 1) : tok[h] # "="
          /\ \E k \in Valued : m_available_options[k].m_full_name = SubSeq(tok, 3, e - 1)

\* where the first "=" of tok is (1-based)
EqualsAt(tok) == CHOOSE e \in 1 .. Len(tok) : tok[e] = "=" /\ \A h \in 1 .. (e - 1) : tok[h] # "="

\* argv with the --name=value at argv[j] written as the two tokens --name value
Split(j) ==
    LET tok == Arg(argv, j)
        e   == EqualsAt(tok)
    IN  SubSeq(argv, 1, j) \o <<SubSeq(tok, 1, e - 1), SubSeq(tok, e + 1, Len(tok))>>
            \o SubSeq(argv, j + 2, Len(argv))

\* the value written after the "=" of tok
ValueText(tok) == SubSeq(tok, EqualsAt(tok) + 1, Len(tok))

\* the indices at which the loop took a --name=value token as an option
AttachedIdx == {j \in OptionIdx : IsAttached(Arg(argv, j))}

\* the two parses ended alike and left the same tables
SameOutcome(two) ==
    /\ two.thrown.what = thrown.what
    /\ two.m_options = m_options
    /\ two.m_arguments = m_arguments
    /\ two.m_remaining_arguments = m_remaining_arguments

\* C6 (as stated): for every value, --name=value and the two tokens --name value
\* in its place give the same outcome and the same option table.
C6_AttachedAsTwoTokens ==
    Parsed => \A j \in AttachedIdx : SameOutcome(Fresh(Split(j), accept))

\* C6 (amended): for every value that does not start with "-", --name=value and
\* the two tokens --name value in its place give the same outcome and the same
\* option table.
C6_AttachedAsTwoTokensNoDash ==
    Parsed =>
        \A j \in AttachedIdx :
            ~StartsWithDash(ValueText(Arg(argv, j))) =>
                SameOutcome(Fresh(Split(j), accept))

\* C6 witness: a successful parse took --out=7 and holds "7" for out.
C6_Witness ==
    /\ Succeeded
    /\ \E j \in AttachedIdx : ValueText(Arg(argv, j)) = <<"7">>
    /\ NameOut \in DOMAIN m_options
    /\ m_options[NameOut] = <<"7">>

\* tok is --name or -x for the definition k, which expects a value
IsBare(tok, k) ==
    /\ k \in Valued
    /\ \/ tok = Dashes \o m_available_options[k].m_full_name
       \/ tok = <<"-", m_available_options[k].m_short_name>>

\* C7: when the loop comes to --name or -x of an option that expects a value, it
\* raises MissingOptionValue exactly when no token follows or the next token
\* starts with "-"; otherwise the next token is the value stored under the full
\* name, and the loop classifies it neither as an option nor as an argument.
C7_NextTokenValue ==
    Parsed =>
        \A j \in 1 .. (Argc(argv) - 1) : \A k \in Valued :
            (Reached(j) /\ IsBare(Arg(argv, j), k)) =>
                LET name == m_available_options[k].m_full_name
                    none == j + 1 >= Argc(argv) \/ StartsWithDash(Arg(argv, j + 1))
                    later == {e \in EventsOf("option") :
                                  scan[e].idx > j /\ scan[e].key = name}
                IN  /\ ThrewAt(j, "MissingOptionValue") <=> none
                    /\ ~none =>
                          /\ \E e \in 1 .. Len(scan) :
                                scan[e] = Event(j, "option", name, Arg(argv, j + 1), j + 1)
                          /\ ~Reached(j + 1)
                          /\ name \in DOMAIN m_options
                          /\ later = {} => m_options[name] = Arg(argv, j + 1)

\* C7 witness: a successful parse took -o with the next token "f" as its value.
C7_Witness ==
    /\ Succeeded
    /\ \E j \in OptionIdx :
          /\ Arg(argv, j) = <<"-", "o">>
          /\ j + 1 \in ValueIdx
          /\ Arg(argv, j + 1) = <<"f">>
    /\ m_options[NameOut] = <<"f">>

\* C8: with accept_remaining_arguments, when the loop comes to a "--" token the
\* tokens after it are the remaining arguments, in order and whatever they are,
\* and none of them is classified or raises; when the loop comes to no "--"
\* token there are no remaining arguments.
C8_RemainingVerbatim ==
    (Parsed /\ accept) =>
        LET seps == {j \in 1 .. (Argc(argv) - 1) : Reached(j) /\ Arg(argv, j) = Dashes}
        IN  IF seps = {}
            THEN m_remaining_arguments = <<>>
            ELSE \A j \in seps :
                    /\ m_remaining_arguments = SubSeq(argv, j + 2, Len(argv))
                    /\ \A e \in 1 .. Len(scan) : scan[e].idx <= j
                    /\ thrown = NoThrow
                    /\ m_arguments = TokensAt(ArgumentIdx \cap (1 .. j), 1)
                    /\ DOMAIN m_options =
                          {scan[e].key : e \in {x \in EventsOf("option") : scan[x].idx < j}}

\* C8 witness: the tokens "-" and "-o" after a "--" are the remaining arguments
\* of a successful parse.
C8_Witness ==
    /\ Succeeded
    /\ accept
    /\ SeparatorIdx # {}
    /\ m_remaining_arguments = << <<"-">>, <<"-", "o">> >>

\* C9: every token the loop classifies that does not start with "-", or that is
\* a single "-", is appended to the positional arguments in the order met, raises
\* nothing and adds no option.
C9_PlainTokensArePositional ==
    Parsed =>
        /\ \A j \in 1 .. (Argc(argv) - 1) :
              (Reached(j) /\ (~StartsWithDash(Arg(argv, j)) \/ Arg(argv, j) = <<"-">>)) =>
                  /\ j \in ArgumentIdx
                  /\ j \notin OptionIdx
                  /\ ~(thrown # NoThrow /\ thrown.at = j)
        /\ m_arguments = TokensAt(ArgumentIdx, 1)

\* C10: a token that starts with a single "-" and is longer than two characters
\* is not looked up as a short option and adds no option: it is a positional
\* argument.
C10_LongSingleDashIsPositional ==
    Parsed =>
        \A j \in 1 .. (Argc(argv) - 1) :
            (/\ Reached(j)
             /\ Len(Arg(argv, j)) > 2
             /\ Arg(argv, j)[1] = "-"
             /\ Arg(argv, j)[2] # "-") =>
                /\ j \in ArgumentIdx
                /\ j \notin OptionIdx
                /\ ~(thrown # NoThrow /\ thrown.at = j)

============================================================================
